---------------------------- MODULE Spec2Model ----------------------------
(***************************************************************************)
(* Model of the QRScanner component (live code detection session) and of   *)
(* the QRFileUpload component (single-shot submission) of the QRail        *)
(* frontend, together with the response handling of services/api.js, of    *)
(* the voice input of MaintenanceInput and of the views of MaintenanceTab. *)
(*                                                                         *)
(* JavaScript runs one task at a time, so every action below is one run-   *)
(* to-completion piece of a handler: from its entry (or from the point     *)
(* where an await resumed) up to its next await or its return.             *)
(***************************************************************************)
EXTENDS Integers, Sequences, FiniteSets, Bags, TLC

\* Bounds of the model.
MaxOpen == 2      \* number of times the modal is opened (one startScanner per open)
MaxReq  == 2      \* number of frames dispatched in total
MaxUploads == 2   \* number of change events, and of scanFromText calls

Sessions == 1..MaxOpen

\* A handle id of 0 stands for null in a ref.
NoHandle == 0

VARIABLES
  mounted,         \* the QRScanner component is mounted
  isOpen,          \* the isOpen prop of the last commit
  effectPending,   \* a commit happened whose passive effect has not run yet
  hasCleanup,      \* the effect that ran last returned a cleanup function
  startTimer,      \* the 300ms setTimeout of the effect is pending
  session,         \* number of opens so far; the current open is session
  isScanningRef,   \* isScanningRef.current
  scanning,        \* the scanning state
  error,           \* the error state
  streamRef,       \* streamRef.current: a stream id or NoHandle
  scanIntervalRef, \* scanIntervalRef.current: an interval id or NoHandle
  frameCountRef,   \* frameCountRef.current
  acq,             \* position of the startScanner invocation of each session
  stream,          \* state of the MediaStream each getUserMedia call produced
  interval,        \* state of the interval timer each startScanner created
  stopCalls,       \* per stream: number of times its tracks were stopped
  clearCalls,      \* per interval: number of clearInterval calls on it
  inflight,        \* the unresolved recognition round trips (a bag)
  nReq,            \* number of round trips dispatched
  sampled,         \* the samplers that have dispatched a round trip
  callbacks,       \* per session: number of onScanComplete invocations
  errNotifs,       \* per session: number of asset-not-found errors set
  lastOutcome,     \* per session: classification of the latest response
  cbSeen,          \* what the latest onScanComplete invocation found
  transientRun,    \* per session: length of the current run of responses
                   \* that ended in the "continue scanning" arm of the catch
  serverResponse,  \* what the server answers to the one image at hand
  uploadOpen,      \* QRFileUpload: the isOpen prop of the last render
  uploadEvents,    \* QRFileUpload: change events of the file input
  uploading,       \* QRFileUpload: the uploading state
  uploadError,     \* QRFileUpload: the error state
  uploadPending,   \* QRFileUpload: handleFileChange waits for scanFromFile
  uploadSubmits,   \* QRFileUpload: change events that carried a file
  uploadCalls,     \* QRFileUpload: calls of api.qr.scanFromFile
  uploadCallbacks, \* QRFileUpload: invocations of onScanComplete
  uploadErrorSets, \* QRFileUpload: setError calls with a message
  uploadKinds,     \* QRFileUpload: how the submissions so far ended
  textPending,     \* api.qr.scanFromText: a call waits for its fetch
  textSubmits,     \* api.qr.scanFromText: calls of the function
  textCalls,       \* api.qr.scanFromText: requests sent to /api/scan-qr
  textOutcomes     \* api.qr.scanFromText: calls settled (returned or thrown)

scannerVars == <<mounted, isOpen, effectPending, hasCleanup, startTimer,
                 session, isScanningRef, scanning, error, streamRef,
                 scanIntervalRef, frameCountRef, acq, stream, interval,
                 stopCalls, clearCalls, inflight, nReq, sampled, callbacks,
                 errNotifs, lastOutcome, cbSeen, transientRun>>

uploadVars == <<uploadOpen, uploadEvents, uploading, uploadError,
                uploadPending, uploadSubmits,
                uploadCalls, uploadCallbacks, uploadErrorSets, uploadKinds>>

textVars == <<textPending, textSubmits, textCalls, textOutcomes>>

\* MaintenanceInput (voice input of the maintenance form).
MaxRec == 2       \* number of startRecording calls

Recs == 1..MaxRec

\* A recorder id of 0 stands for null in mediaRecorderRef.
NoRecorder == 0

VARIABLES
  inputMount,         \* MaintenanceInput: "before", "mounted" or "after" its life
  speechSupported,    \* MaintenanceInput: the speechSupported state
  isListening,        \* MaintenanceInput: the isListening state
  isProcessingSpeech, \* MaintenanceInput: the isProcessingSpeech state
  isEnhancing,        \* MaintenanceInput: the isEnhancing state
  description,        \* MaintenanceInput: the description state
  inputError,         \* MaintenanceInput: the error state
  mediaRecorderRef,   \* MaintenanceInput: mediaRecorderRef.current
  recording,          \* position of each startRecording call and its recorder
  micStream,          \* state of the MediaStream each startRecording acquired
  nRec,               \* number of startRecording calls
  enhancePending      \* handleEnhance waits for /api/ai/enhance-description

audioVars == <<inputMount, speechSupported, isListening, isProcessingSpeech,
               isEnhancing, description, inputError, mediaRecorderRef,
               recording, micStream, nRec, enhancePending>>

\* MaintenanceTab (scanner view and maintenance form).
MaxScans == 2     \* number of handleScanComplete calls, and of form submits

AssetIds == {"a1", "a2"}

\* scannedAsset = null
NoAsset == "null"

VARIABLES
  view,            \* MaintenanceTab: the view state
  scannedAsset,    \* MaintenanceTab: the scannedAsset state
  showScanner,     \* MaintenanceTab: the showScanner state
  lookups,         \* handleScanComplete calls that wait for api.assets.getAll
  creates,         \* handleSubmitMaintenance calls that wait for create
  nScans,          \* number of handleScanComplete calls
  nSubmits,        \* number of handleSubmitMaintenance calls that sent a request
  lastLookup       \* how the handleScanComplete that resumed last ended

tabVars == <<view, scannedAsset, showScanner, lookups, creates, nScans,
             nSubmits, lastLookup>>

vars == <<scannerVars, serverResponse, uploadVars, textVars, audioVars, tabVars>>

\* The variables stopScanner and the match branch work on, as one record.
Core == [isScanningRef |-> isScanningRef, scanning |-> scanning,
         streamRef |-> streamRef, scanIntervalRef |-> scanIntervalRef,
         stream |-> stream, interval |-> interval,
         stopCalls |-> stopCalls, clearCalls |-> clearCalls]

SetCore(c) ==
  /\ isScanningRef' = c.isScanningRef
  /\ scanning' = c.scanning
  /\ streamRef' = c.streamRef
  /\ scanIntervalRef' = c.scanIntervalRef
  /\ stream' = c.stream
  /\ interval' = c.interval
  /\ stopCalls' = c.stopCalls
  /\ clearCalls' = c.clearCalls

\* videoRef.current and canvasRef.current are attached exactly while the
\* component renders the modal body.
VideoRefAttached == mounted /\ isOpen


(***************************************************************************)
(* services/api.js: the HTTP exchange of api.qr.scanFromFrame.             *)
(***************************************************************************)

\* Error strings a server body can carry, and the status lines of fetch.
NoText == ""
BodyErrors == {NoText, "Asset not found", "No QR code detected"}

\* The JSON body of /api/scan-qr-frame: {success, assetId?, asset?, error?}.
\* hasAssetId / hasAsset say whether the field is present (truthy).
Bodies == [success : BOOLEAN, hasAssetId : BOOLEAN, hasAsset : BOOLEAN,
           error : BodyErrors]

\* What fetch produces: a network failure (fetch rejects), or a response
\* with a status, whose body is JSON or not.
HttpStatuses == {200, 404, 500}
NetworkFailure == [kind |-> "network"]
HttpResponses ==
  {NetworkFailure}
  \cup [kind : {"http"}, status : HttpStatuses, json : BOOLEAN, body : Bodies]

StatusText(status) ==
  CASE status = 200 -> "HTTP 200: OK"
    [] status = 404 -> "HTTP 404: NOT FOUND"
    [] OTHER        -> "HTTP 500: INTERNAL SERVER ERROR"

\* handleResponse: a non-OK response throws Error(error.error || `HTTP
\* ${status}: ${statusText}`), where a body that is not JSON counts as
\* {error: 'Network error occurred'}; an OK response returns its JSON body
\* (and throws the parser's SyntaxError when the body is not JSON).
handleResponse(response) ==
  IF ~(response.status = 200)
  THEN LET e == IF response.json THEN response.body.error
                ELSE "Network error occurred"
       IN [throws |-> TRUE,
           message |-> IF e # NoText THEN e ELSE StatusText(response.status)]
  ELSE IF response.json
       THEN [throws |-> FALSE, result |-> response.body]
       ELSE [throws |-> TRUE, message |-> "Unexpected token < in JSON"]

\* api.qr.scanFromFrame: fetch, then handleResponse; a rejected fetch
\* propagates its TypeError.
scanFromFrame(response) ==
  IF response.kind = "network"
  THEN [throws |-> TRUE, message |-> "Failed to fetch"]
  ELSE handleResponse(response)

\* err.message?.includes('404') over the messages above.
Includes404(message) == message \in {"HTTP 404: NOT FOUND"}

\* api.qr.scanFromFile: fetch, then handleResponse.
scanFromFile(response) ==
  IF response.kind = "network"
  THEN [throws |-> TRUE, message |-> "Failed to fetch"]
  ELSE handleResponse(response)

\* No call of api.qr.scanFromText yet.
TextInit ==
  /\ textPending = FALSE
  /\ textSubmits = 0
  /\ textCalls = 0
  /\ textOutcomes = 0

\* A caller invokes api.qr.scanFromText with a payload and awaits it: the
\* function sends one request and waits for fetch.
scanFromTextCall ==
  /\ ~textPending
  /\ textSubmits < MaxUploads
  /\ textPending' = TRUE
  /\ textSubmits' = textSubmits + 1
  /\ textCalls' = textCalls + 1
  /\ UNCHANGED <<textOutcomes, scannerVars, serverResponse, uploadVars, audioVars, tabVars>>

\* fetch settles and the call returns what handleResponse returns, or
\* throws what it throws.
scanFromTextSettle ==
  /\ textPending
  /\ textPending' = FALSE
  /\ textOutcomes' = textOutcomes + 1
  /\ UNCHANGED <<textSubmits, textCalls, scannerVars, serverResponse,
                 uploadVars, audioVars, tabVars>>

\* Stands for "no particular response".
AnyResponse == [kind |-> "any"]

(***************************************************************************)
(* QRFileUpload.jsx                                                        *)
(***************************************************************************)

\* useState(false), useState(''), and nothing submitted yet.
UploadInit ==
  /\ uploadOpen = FALSE
  /\ uploadEvents = 0
  /\ uploading = FALSE
  /\ uploadError = NoText
  /\ uploadPending = FALSE
  /\ uploadSubmits = 0
  /\ uploadCalls = 0
  /\ uploadCallbacks = 0
  /\ uploadErrorSets = 0
  /\ uploadKinds = {}

\* result.success && result.assetId
IsUploadMatch(result) == result.success /\ result.hasAssetId

\* What handleFileChange makes of what scanFromFile produced: it delivers
\* the match, or it sets a message.
uploadOutcome(out) ==
  IF ~out.throws
  THEN IF IsUploadMatch(out.result)
       THEN [matched |-> TRUE, message |-> NoText]
       ELSE [matched |-> FALSE,
             message |-> IF out.result.error # NoText THEN out.result.error
                         ELSE "Failed to read QR code from image"]
  ELSE [matched |-> FALSE,
        message |-> "Error uploading file: " \o out.message]

\* The parent renders QRFileUpload with isOpen = true, or with isOpen =
\* false: the component returns null but stays mounted and keeps its state.
UploadOpen ==
  /\ ~uploadOpen
  /\ uploadOpen' = TRUE
  /\ UNCHANGED <<uploadEvents, uploading, uploadError, uploadPending,
                 uploadSubmits, uploadCalls, uploadCallbacks,
                 uploadErrorSets, uploadKinds, scannerVars, serverResponse,
                 textVars, audioVars, tabVars>>

UploadClose ==
  /\ uploadOpen
  /\ uploadOpen' = FALSE
  /\ UNCHANGED <<uploadEvents, uploading, uploadError, uploadPending,
                 uploadSubmits, uploadCalls, uploadCallbacks,
                 uploadErrorSets, uploadKinds, scannerVars, serverResponse,
                 textVars, audioVars, tabVars>>

\* A file input that stays enabled while an upload is outstanding.
handleFileChange_notDisabled(hasFile) ==
  /\ uploadOpen
  /\ uploadEvents < MaxUploads
  /\ uploadEvents' = uploadEvents + 1
  /\ IF hasFile
     THEN /\ uploading' = TRUE
          /\ uploadError' = NoText
          /\ uploadPending' = TRUE
          /\ uploadSubmits' = uploadSubmits + 1
          /\ uploadCalls' = uploadCalls + 1
          /\ UNCHANGED <<uploadOpen, uploadCallbacks, uploadErrorSets,
                         uploadKinds>>
     ELSE UNCHANGED <<uploadOpen, uploading, uploadError, uploadPending,
                      uploadSubmits, uploadCalls, uploadCallbacks,
                      uploadErrorSets, uploadKinds>>
  /\ UNCHANGED <<scannerVars, serverResponse, textVars, audioVars, tabVars>>

\* The change event of the file input, which is rendered while the modal
\* is open and is disabled while uploading, up to the await of scanFromFile.
\* Without a file the handler returns at once.
handleFileChange(hasFile) ==
  /\ uploadOpen
  /\ ~uploading
  /\ uploadEvents < MaxUploads
  /\ uploadEvents' = uploadEvents + 1
  /\ IF hasFile
     THEN /\ uploading' = TRUE
          /\ uploadError' = NoText
          /\ uploadPending' = TRUE
          /\ uploadSubmits' = uploadSubmits + 1
          /\ uploadCalls' = uploadCalls + 1
          /\ UNCHANGED <<uploadOpen, uploadCallbacks, uploadErrorSets,
                         uploadKinds>>
     ELSE UNCHANGED <<uploadOpen, uploading, uploadError, uploadPending,
                      uploadSubmits, uploadCalls, uploadCallbacks,
                      uploadErrorSets, uploadKinds>>
  /\ UNCHANGED <<scannerVars, serverResponse, textVars, audioVars, tabVars>>

\* A handler that shows no message when the image holds no match.
UploadResponse_silentFailure ==
  /\ uploadPending
  /\ LET o == uploadOutcome(scanFromFile(serverResponse))
     IN /\ IF o.matched
           THEN uploadCallbacks' = uploadCallbacks + 1
           ELSE UNCHANGED uploadCallbacks
        /\ uploadKinds' = uploadKinds \cup {o}
  /\ uploading' = FALSE
  /\ uploadPending' = FALSE
  /\ UNCHANGED <<uploadOpen, uploadEvents, uploadError, uploadErrorSets,
                 uploadSubmits, uploadCalls, scannerVars, serverResponse,
                 textVars, audioVars, tabVars>>

\* A handler that delivers a match only the first time.
UploadResponse_deliversOnce ==
  /\ uploadPending
  /\ LET o == uploadOutcome(scanFromFile(serverResponse))
         p == IF o.matched /\ uploadCallbacks > 0
              THEN [matched |-> FALSE, message |-> "Already scanned"]
              ELSE o
     IN /\ IF p.matched
           THEN /\ uploadCallbacks' = uploadCallbacks + 1
                /\ UNCHANGED <<uploadError, uploadErrorSets>>
           ELSE /\ uploadError' = p.message
                /\ uploadErrorSets' = uploadErrorSets + 1
                /\ UNCHANGED uploadCallbacks
        /\ uploadKinds' = uploadKinds \cup {p}
  /\ uploading' = FALSE
  /\ uploadPending' = FALSE
  /\ UNCHANGED <<uploadOpen, uploadEvents, uploadSubmits, uploadCalls,
                 scannerVars, serverResponse, textVars, audioVars, tabVars>>

\* scanFromFile settles and handleFileChange resumes: the try body or the
\* catch block, then the finally block.
UploadResponse ==
  /\ uploadPending
  /\ LET o == uploadOutcome(scanFromFile(serverResponse))
     IN /\ IF o.matched
           THEN /\ uploadCallbacks' = uploadCallbacks + 1
                /\ UNCHANGED <<uploadError, uploadErrorSets>>
           ELSE /\ uploadError' = o.message
                /\ uploadErrorSets' = uploadErrorSets + 1
                /\ UNCHANGED uploadCallbacks
        /\ uploadKinds' = uploadKinds \cup {o}
  /\ uploading' = FALSE
  /\ uploadPending' = FALSE
  /\ UNCHANGED <<uploadOpen, uploadEvents, uploadSubmits, uploadCalls,
                 scannerVars, serverResponse, textVars, audioVars, tabVars>>

(***************************************************************************)
(* QRScanner.jsx                                                           *)
(***************************************************************************)

\* A stopScanner that stops the tracks but forgets to null streamRef.
stopScanner_keepsStreamRef(c) ==
  LET c1 == [c EXCEPT !.isScanningRef = FALSE]
      c2 == IF c1.scanIntervalRef # NoHandle
            THEN [c1 EXCEPT
                    !.interval[c1.scanIntervalRef] = "cleared",
                    !.clearCalls[c1.scanIntervalRef] = @ + 1,
                    !.scanIntervalRef = NoHandle]
            ELSE c1
      c3 == IF c2.streamRef # NoHandle
            THEN [c2 EXCEPT
                    !.stream[c2.streamRef] = "stopped",
                    !.stopCalls[c2.streamRef] = @ + 1]
            ELSE c2
  IN [c3 EXCEPT !.scanning = FALSE]

\* A stopScanner that releases the timer and the stream but leaves
\* isScanningRef up.
stopScanner_keepsFlag(c) ==
  LET c2 == IF c.scanIntervalRef # NoHandle
            THEN [c EXCEPT
                    !.interval[c.scanIntervalRef] = "cleared",
                    !.clearCalls[c.scanIntervalRef] = @ + 1,
                    !.scanIntervalRef = NoHandle]
            ELSE c
      c3 == IF c2.streamRef # NoHandle
            THEN [c2 EXCEPT
                    !.stream[c2.streamRef] = "stopped",
                    !.stopCalls[c2.streamRef] = @ + 1,
                    !.streamRef = NoHandle]
            ELSE c2
  IN [c3 EXCEPT !.scanning = FALSE]

\* stopScanner, as a function of the state it reads and writes.
stopScanner(c) ==
  LET c1 == [c EXCEPT !.isScanningRef = FALSE]
      c2 == IF c1.scanIntervalRef # NoHandle
            THEN [c1 EXCEPT
                    !.interval[c1.scanIntervalRef] = "cleared",
                    !.clearCalls[c1.scanIntervalRef] = @ + 1,
                    !.scanIntervalRef = NoHandle]
            ELSE c1
      c3 == IF c2.streamRef # NoHandle
            THEN [c2 EXCEPT
                    !.stream[c2.streamRef] = "stopped",
                    !.stopCalls[c2.streamRef] = @ + 1,
                    !.streamRef = NoHandle]
            ELSE c2
  IN [c3 EXCEPT !.scanning = FALSE]

\* The release sequence of the match branch of captureAndScanFrame, which
\* runs before the completion handler is called.
matchRelease(c) ==
  LET c1 == [c EXCEPT !.isScanningRef = FALSE]
      c2 == IF c1.scanIntervalRef # NoHandle
            THEN [c1 EXCEPT
                    !.interval[c1.scanIntervalRef] = "cleared",
                    !.clearCalls[c1.scanIntervalRef] = @ + 1,
                    !.scanIntervalRef = NoHandle]
            ELSE c1
      c3 == IF c2.streamRef # NoHandle
            THEN [c2 EXCEPT
                    !.stream[c2.streamRef] = "stopped",
                    !.stopCalls[c2.streamRef] = @ + 1,
                    !.streamRef = NoHandle]
            ELSE c2
  IN [c3 EXCEPT !.scanning = FALSE]

\* A round trip that was dispatched and has not resolved yet: the session
\* it was dispatched in, and whether a teardown has run since.
Request(k) == [session |-> k, stale |-> FALSE]

\* The distinct unresolved round trips.
InFlight == BagToSet(inflight)

\* Marks every unresolved round trip as overtaken by a teardown.
MarkStale(q) ==
  LET marked == {[e EXCEPT !.stale = TRUE] : e \in BagToSet(q)}
  IN [e \in marked |->
        CopiesIn(e, q) + CopiesIn([e EXCEPT !.stale = FALSE], q)]

\* The state of the timers and streams as an onScanComplete invocation
\* finds it: the two refs, and whether any sampler or stream is still live.
NotCalled == [called |-> FALSE]
Seen(c) ==
  [called |-> TRUE,
   isScanningRef |-> c.isScanningRef,
   scanIntervalRef |-> c.scanIntervalRef,
   streamRef |-> c.streamRef,
   liveIntervals |-> {i \in Sessions : c.interval[i] = "live"},
   liveStreams |-> {i \in Sessions : c.stream[i] = "live"}]

ScannerInit ==
  /\ mounted = TRUE
  /\ isOpen = FALSE
  /\ effectPending = FALSE
  /\ hasCleanup = FALSE
  /\ startTimer = FALSE
  /\ session = 0
  /\ isScanningRef = FALSE
  /\ scanning = FALSE
  /\ error = NoText
  /\ streamRef = NoHandle
  /\ scanIntervalRef = NoHandle
  /\ frameCountRef = 0
  /\ acq = [k \in Sessions |-> "none"]
  /\ stream = [k \in Sessions |-> "none"]
  /\ interval = [k \in Sessions |-> "none"]
  /\ stopCalls = [k \in Sessions |-> 0]
  /\ clearCalls = [k \in Sessions |-> 0]
  /\ inflight = EmptyBag
  /\ nReq = 0
  /\ sampled = {}
  /\ callbacks = [k \in Sessions |-> 0]
  /\ errNotifs = [k \in Sessions |-> 0]
  /\ lastOutcome = [k \in Sessions |-> "none"]
  /\ cbSeen = NotCalled
  /\ transientRun = [k \in Sessions |-> 0]

(***************************************************************************)
(* MaintenanceInput: audio capture and speech processing.                  *)
(***************************************************************************)
otherThanAudio == <<scannerVars, serverResponse, uploadVars, textVars, tabVars>>

AudioInit ==
  /\ inputMount = "before"
  /\ speechSupported = FALSE
  /\ isListening = FALSE
  /\ isProcessingSpeech = FALSE
  /\ isEnhancing = FALSE
  /\ description = ""
  /\ inputError = ""
  /\ mediaRecorderRef = NoRecorder
  /\ recording = [k \in Recs |-> "none"]
  /\ micStream = [k \in Recs |-> "none"]
  /\ nRec = 0
  /\ enhancePending = FALSE

\* The form is shown: the component mounts and its effect runs
\* checkAudioSupport, which sets speechSupported.
checkAudioSupport(hasMediaRecorder) ==
  /\ inputMount = "before"
  /\ inputMount' = "mounted"
  /\ speechSupported' = hasMediaRecorder
  /\ UNCHANGED <<isListening, isProcessingSpeech, isEnhancing, description,
                 inputError, mediaRecorderRef, recording, micStream, nRec,
                 enhancePending, otherThanAudio>>

\* The form goes away (cancel, submit, tab change, logout).  The component
\* registers no cleanup: recorders, streams and requests stay as they are.
InputUnmount ==
  /\ inputMount = "mounted"
  /\ inputMount' = "after"
  /\ UNCHANGED <<speechSupported, isListening, isProcessingSpeech, isEnhancing,
                 description, inputError, mediaRecorderRef, recording,
                 micStream, nRec, enhancePending, otherThanAudio>>

\* The microphone button is rendered when speechSupported, is disabled while
\* isProcessingSpeech or isEnhancing, and calls startRecording while
\* isListening is false.
micButtonEnabled ==
  /\ inputMount = "mounted"
  /\ speechSupported
  /\ ~(isProcessingSpeech \/ isEnhancing)

\* startRecording up to its await of getUserMedia.
startRecording ==
  /\ micButtonEnabled
  /\ ~isListening
  /\ nRec < MaxRec
  /\ nRec' = nRec + 1
  /\ recording' = [recording EXCEPT ![nRec + 1] = "pending"]
  /\ UNCHANGED <<inputMount, speechSupported, isListening, isProcessingSpeech,
                 isEnhancing, description, inputError, mediaRecorderRef,
                 micStream, enhancePending, otherThanAudio>>

\* A state setter of an unmounted component changes nothing.
setState(old, new) == IF inputMount = "mounted" THEN new ELSE old

\* getUserMedia resolved: the recorder is created, stored in the ref and
\* started; isListening becomes true.
MicResolve(k) ==
  /\ recording[k] = "pending"
  /\ micStream' = [micStream EXCEPT ![k] = "live"]
  /\ mediaRecorderRef' = k
  /\ recording' = [recording EXCEPT ![k] = "recording"]
  /\ isListening' = setState(isListening, TRUE)
  /\ inputError' = setState(inputError, "")
  /\ UNCHANGED <<inputMount, speechSupported, isProcessingSpeech, isEnhancing,
                 description, nRec, enhancePending, otherThanAudio>>

\* getUserMedia rejected: the catch sets the error.
MicReject(k) ==
  /\ recording[k] = "pending"
  /\ recording' = [recording EXCEPT ![k] = "failed"]
  /\ inputError' = setState(inputError, "microphone")
  /\ UNCHANGED <<inputMount, speechSupported, isListening, isProcessingSpeech,
                 isEnhancing, description, mediaRecorderRef, micStream, nRec,
                 enhancePending, otherThanAudio>>

\* stopRecording: the button calls it while isListening; it stops the
\* recorder the ref holds, whichever call created it.
stopRecording ==
  /\ micButtonEnabled
  /\ isListening
  /\ mediaRecorderRef # NoRecorder
  /\ IF recording[mediaRecorderRef] = "recording"
       THEN /\ recording' = [recording EXCEPT ![mediaRecorderRef] = "stopping"]
            /\ isListening' = FALSE
       ELSE UNCHANGED <<recording, isListening>>
  /\ UNCHANGED <<inputMount, speechSupported, isProcessingSpeech, isEnhancing,
                 description, inputError, mediaRecorderRef, micStream, nRec,
                 enhancePending, otherThanAudio>>

\* processAudioBlob up to its return: it sets isProcessingSpeech, starts the
\* FileReader and installs its handlers; the try block awaits nothing, so
\* the finally runs at once and the last value set is false.
processAudioBlob(k) ==
  /\ isProcessingSpeech' = setState(isProcessingSpeech, FALSE)
  /\ inputError' = setState(inputError, "")
  /\ recording' = [recording EXCEPT ![k] = "reading"]

\* The onstop handler of recorder k: processAudioBlob, then the tracks of
\* the stream of this recorder are stopped.
RecorderStop(k) ==
  /\ recording[k] = "stopping"
  /\ processAudioBlob(k)
  /\ micStream' = [micStream EXCEPT ![k] = "stopped"]
  /\ UNCHANGED <<inputMount, speechSupported, isListening, isEnhancing,
                 description, mediaRecorderRef, nRec, enhancePending,
                 otherThanAudio>>

\* reader.onloadend up to its await of fetch: the request is sent.  The
\* loadend event follows a failed read as well as a successful one.
ReaderLoadEnd(k) ==
  /\ recording[k] \in {"reading", "readFailed"}
  /\ recording' = [recording EXCEPT ![k] = "inflight"]
  /\ UNCHANGED <<inputMount, speechSupported, isListening, isProcessingSpeech,
                 isEnhancing, description, inputError, mediaRecorderRef,
                 micStream, nRec, enhancePending, otherThanAudio>>

\* reader.onerror: the error is set and isProcessingSpeech reset.
ReaderError(k) ==
  /\ recording[k] = "reading"
  /\ recording' = [recording EXCEPT ![k] = "readFailed"]
  /\ inputError' = setState(inputError, "read")
  /\ isProcessingSpeech' = setState(isProcessingSpeech, FALSE)
  /\ UNCHANGED <<inputMount, speechSupported, isListening, isEnhancing,
                 description, mediaRecorderRef, micStream, nRec,
                 enhancePending, otherThanAudio>>

SpeechOutcomes == {"success", "failure", "throws"}

\* The rest of reader.onloadend: the response of /api/speech/process-audio
\* is handled.  A rejected fetch or an unparsable body leaves the handler
\* by an exception nothing catches.
SpeechResponse(k, outcome) ==
  /\ recording[k] = "inflight"
  /\ recording' = [recording EXCEPT ![k] = "done"]
  /\ description' = IF outcome = "success"
                      THEN setState(description, "text") ELSE description
  /\ inputError' = IF outcome = "failure"
                     THEN setState(inputError, "speech") ELSE inputError
  /\ UNCHANGED <<inputMount, speechSupported, isListening, isProcessingSpeech,
                 isEnhancing, mediaRecorderRef, micStream, nRec,
                 enhancePending, otherThanAudio>>

\* The textarea is disabled while isEnhancing or isProcessingSpeech.
handleManualInput(value) ==
  /\ inputMount = "mounted"
  /\ ~(isEnhancing \/ isProcessingSpeech)
  /\ description' = value
  /\ inputError' = ""
  /\ UNCHANGED <<inputMount, speechSupported, isListening, isProcessingSpeech,
                 isEnhancing, mediaRecorderRef, recording, micStream, nRec,
                 enhancePending, otherThanAudio>>

\* handleEnhance up to its await of fetch; the button is disabled while
\* isEnhancing, while isProcessingSpeech and while the description is blank.
handleEnhance ==
  /\ inputMount = "mounted"
  /\ ~(isEnhancing \/ isProcessingSpeech)
  /\ description # ""
  /\ isEnhancing' = TRUE
  /\ inputError' = ""
  /\ enhancePending' = TRUE
  /\ UNCHANGED <<inputMount, speechSupported, isListening, isProcessingSpeech,
                 description, mediaRecorderRef, recording, micStream, nRec,
                 otherThanAudio>>

\* The rest of handleEnhance: result or error, and the finally.
EnhanceResponse(ok) ==
  /\ enhancePending
  /\ enhancePending' = FALSE
  /\ isEnhancing' = setState(isEnhancing, FALSE)
  /\ inputError' = IF ok THEN inputError ELSE setState(inputError, "enhance")
  /\ UNCHANGED <<inputMount, speechSupported, isListening, isProcessingSpeech,
                 description, mediaRecorderRef, recording, micStream, nRec,
                 otherThanAudio>>

NextAudio ==
  \/ \E hasMediaRecorder \in BOOLEAN : checkAudioSupport(hasMediaRecorder)
  \/ InputUnmount
  \/ startRecording
  \/ \E k \in Recs : MicResolve(k)
  \/ \E k \in Recs : MicReject(k)
  \/ stopRecording
  \/ \E k \in Recs : RecorderStop(k)
  \/ \E k \in Recs : ReaderLoadEnd(k)
  \/ \E k \in Recs : ReaderError(k)
  \/ \E k \in Recs, outcome \in SpeechOutcomes : SpeechResponse(k, outcome)
  \/ \E value \in {"", "text"} : handleManualInput(value)
  \/ handleEnhance
  \/ \E ok \in BOOLEAN : EnhanceResponse(ok)

(***************************************************************************)
(* MaintenanceTab: scanner view, asset lookup and maintenance form.        *)
(***************************************************************************)
otherThanTab == <<scannerVars, serverResponse, uploadVars, textVars, audioVars>>

TabInit ==
  /\ view = "scanner"
  /\ scannedAsset = NoAsset
  /\ showScanner = FALSE
  /\ lookups = EmptyBag
  /\ creates = 0
  /\ nScans = 0
  /\ nSubmits = 0
  /\ lastLookup = "none"

\* The form is rendered when view is 'form' and scannedAsset is set.
formShown == view = "form" /\ scannedAsset # NoAsset

handleStartScan ==
  /\ ~showScanner
  /\ showScanner' = TRUE
  /\ UNCHANGED <<view, scannedAsset, lookups, creates, nScans, nSubmits,
                 lastLookup, otherThanTab>>

\* onClose of the scanner modal.
ScannerOnClose ==
  /\ showScanner
  /\ showScanner' = FALSE
  /\ UNCHANGED <<view, scannedAsset, lookups, creates, nScans, nSubmits,
                 lastLookup, otherThanTab>>

\* handleScanComplete up to its await of api.assets.getAll.  The scanner
\* calls it whenever it sees a match, also twice and also after its close.
handleScanComplete(assetId) ==
  /\ nScans < MaxScans
  /\ nScans' = nScans + 1
  /\ showScanner' = FALSE
  /\ lookups' = lookups (+) SetToBag({assetId})
  /\ UNCHANGED <<view, scannedAsset, creates, nSubmits, lastLookup,
                 otherThanTab>>

LookupResults == {"found", "missing", "throws"}

LookupResponse_keepsView(assetId, result) ==
  /\ BagIn(assetId, lookups)
  /\ lookups' = lookups (-) SetToBag({assetId})
  /\ lastLookup' = result
  /\ IF result = "found"
       THEN /\ scannedAsset' = assetId
            /\ view' = "form"
       ELSE /\ scannedAsset' = NoAsset
            /\ view' = view
  /\ UNCHANGED <<showScanner, creates, nScans, nSubmits, otherThanTab>>

\* The rest of handleScanComplete: the asset is in the list (scannedAsset
\* and view 'form' are set), or it is missing or getAll threw (the catch
\* resets scannedAsset and sets view 'scanner').
LookupResponse(assetId, result) ==
  /\ BagIn(assetId, lookups)
  /\ lookups' = lookups (-) SetToBag({assetId})
  /\ lastLookup' = result
  /\ IF result = "found"
       THEN /\ scannedAsset' = assetId
            /\ view' = "form"
       ELSE /\ scannedAsset' = NoAsset
            /\ view' = "scanner"
  /\ UNCHANGED <<showScanner, creates, nScans, nSubmits, otherThanTab>>

\* handleSubmitMaintenance up to its await of api.maintenance.create.  The
\* form is there to submit only while it is rendered, so the early return
\* for a null scannedAsset is never taken.
handleSubmitMaintenance ==
  /\ formShown
  /\ nSubmits < MaxScans
  /\ nSubmits' = nSubmits + 1
  /\ creates' = creates + 1
  /\ UNCHANGED <<view, scannedAsset, showScanner, lookups, nScans, lastLookup,
                 otherThanTab>>

CreateResults == {"success", "failure", "throws"}

\* The rest of handleSubmitMaintenance.
CreateResponse(result) ==
  /\ creates > 0
  /\ creates' = creates - 1
  /\ IF result = "success"
       THEN /\ scannedAsset' = NoAsset
            /\ view' = "scanner"
       ELSE UNCHANGED <<scannedAsset, view>>
  /\ UNCHANGED <<showScanner, lookups, nScans, nSubmits, lastLookup,
                 otherThanTab>>

cancelForm ==
  /\ formShown
  /\ scannedAsset' = NoAsset
  /\ view' = "scanner"
  /\ UNCHANGED <<showScanner, lookups, creates, nScans, nSubmits, lastLookup,
                 otherThanTab>>

NextTab ==
  \/ handleStartScan
  \/ ScannerOnClose
  \/ \E assetId \in AssetIds : handleScanComplete(assetId)
  \/ \E assetId \in AssetIds, result \in LookupResults :
       LookupResponse(assetId, result)
  \/ handleSubmitMaintenance
  \/ \E result \in CreateResults : CreateResponse(result)
  \/ cancelForm

\* The state after construction.  Here the server may answer every round
\* trip differently, so serverResponse says nothing.
Init ==
  /\ ScannerInit
  /\ UploadInit
  /\ TextInit
  /\ AudioInit
  /\ TabInit
  /\ serverResponse = AnyResponse


\* The parent renders the scanner with isOpen = true (MaintenanceTab
\* handleStartScan); React commits and attaches the video and canvas refs.
Open ==
  /\ mounted /\ ~isOpen /\ ~effectPending
  /\ session < MaxOpen
  /\ isOpen' = TRUE
  /\ session' = session + 1
  /\ effectPending' = TRUE
  /\ UNCHANGED <<mounted, hasCleanup, startTimer, isScanningRef, scanning,
                 error, streamRef, scanIntervalRef, frameCountRef, acq,
                 stream, interval, stopCalls, clearCalls, inflight, nReq, sampled,
                 callbacks, errNotifs, lastOutcome, cbSeen,
                 transientRun, serverResponse, uploadVars, textVars, audioVars, tabVars>>

\* The parent renders the scanner with isOpen = false (onClose, or
\* handleScanComplete after a match); the modal body and its refs go away.
Close ==
  /\ mounted /\ isOpen /\ ~effectPending
  /\ isOpen' = FALSE
  /\ effectPending' = TRUE
  /\ UNCHANGED <<mounted, hasCleanup, startTimer, session, isScanningRef,
                 scanning, error, streamRef, scanIntervalRef, frameCountRef,
                 acq, stream, interval, stopCalls, clearCalls, inflight, nReq, sampled,
                 callbacks, errNotifs, lastOutcome, cbSeen,
                 transientRun, serverResponse, uploadVars, textVars, audioVars, tabVars>>

\* The parent unmounts the scanner: the Maintenance tab is left, or
\* App.handleLogout sets the user to null after its await and the whole
\* dashboard goes away.
Unmount ==
  /\ mounted /\ ~effectPending
  /\ mounted' = FALSE
  /\ effectPending' = TRUE
  /\ UNCHANGED <<isOpen, hasCleanup, startTimer, session, isScanningRef,
                 scanning, error, streamRef, scanIntervalRef, frameCountRef,
                 acq, stream, interval, stopCalls, clearCalls, inflight, nReq, sampled,
                 callbacks, errNotifs, lastOutcome, cbSeen,
                 transientRun, serverResponse, uploadVars, textVars, audioVars, tabVars>>

\* The useEffect on [isOpen, startScanner, stopScanner], run for a commit
\* that left the component mounted or not (m) with the prop isOpen (o):
\* first the cleanup the previous run returned (clearTimeout, then
\* stopScanner), then, unless the component is gone, the new body: with
\* isOpen it arms the 300ms timer, without it it calls stopScanner.
Effect(m, o) ==
  LET afterCleanup == IF hasCleanup THEN stopScanner(Core) ELSE Core
      ranStop == hasCleanup \/ (m /\ ~o)
  IN /\ SetCore(IF m /\ ~o THEN stopScanner(afterCleanup) ELSE afterCleanup)
     /\ inflight' = IF ranStop THEN MarkStale(inflight) ELSE inflight
     /\ startTimer' = (m /\ o)
     /\ hasCleanup' = (m /\ o)

\* React runs the passive effect of the last commit in a later task (a
\* legacy root, or an update made outside an event handler).
RunEffect ==
  /\ effectPending
  /\ effectPending' = FALSE
  /\ Effect(mounted, isOpen)
  /\ UNCHANGED <<mounted, isOpen, session, error, frameCountRef, acq, nReq,
                 sampled, callbacks, errNotifs, lastOutcome, cbSeen,
                 transientRun, serverResponse, uploadVars, textVars, audioVars, tabVars>>

\* The same three commits when React flushes the passive effect inside the
\* commit (a click handled by a concurrent root): commit and effect are one
\* task.
OpenSync ==
  /\ mounted /\ ~isOpen /\ ~effectPending
  /\ session < MaxOpen
  /\ isOpen' = TRUE
  /\ session' = session + 1
  /\ Effect(TRUE, TRUE)
  /\ UNCHANGED <<mounted, effectPending, error, frameCountRef, acq, nReq,
                 sampled, callbacks, errNotifs, lastOutcome, cbSeen,
                 transientRun, serverResponse, uploadVars, textVars, audioVars, tabVars>>

CloseSync ==
  /\ mounted /\ isOpen /\ ~effectPending
  /\ isOpen' = FALSE
  /\ Effect(TRUE, FALSE)
  /\ UNCHANGED <<mounted, effectPending, session, error, frameCountRef, acq,
                 nReq, sampled, callbacks, errNotifs, lastOutcome, cbSeen,
                 transientRun, serverResponse, uploadVars, textVars, audioVars, tabVars>>

UnmountSync ==
  /\ mounted /\ ~effectPending
  /\ mounted' = FALSE
  /\ Effect(FALSE, isOpen)
  /\ UNCHANGED <<isOpen, effectPending, session, error, frameCountRef, acq,
                 nReq, sampled, callbacks, errNotifs, lastOutcome, cbSeen,
                 transientRun, serverResponse, uploadVars, textVars, audioVars, tabVars>>

\* The 300ms timer fires and calls startScanner, which runs up to its
\* await of getUserMedia.
StartTimerFire ==
  /\ startTimer
  /\ startTimer' = FALSE
  /\ IF isScanningRef
     THEN UNCHANGED <<error, scanning, isScanningRef, frameCountRef, acq>>
     ELSE /\ error' = NoText
          /\ scanning' = TRUE
          /\ isScanningRef' = TRUE
          /\ frameCountRef' = 0
          /\ acq' = [acq EXCEPT ![session] = "pending"]
  /\ UNCHANGED <<mounted, isOpen, effectPending, hasCleanup, session,
                 streamRef, scanIntervalRef, stream, interval, stopCalls,
                 clearCalls, inflight, nReq, sampled, callbacks, errNotifs, lastOutcome, cbSeen,
                 transientRun, serverResponse, uploadVars, textVars, audioVars, tabVars>>

\* getUserMedia of the startScanner of session k resolves with a stream:
\* streamRef takes it; with a video element the function goes on to wait
\* for the element to be ready, without one it returns.
GetUserMediaResolve(k) ==
  /\ acq[k] = "pending"
  /\ stream' = [stream EXCEPT ![k] = "live"]
  /\ streamRef' = k
  /\ acq' = [acq EXCEPT ![k] = IF VideoRefAttached THEN "awaitReady" ELSE "done"]
  /\ UNCHANGED <<mounted, isOpen, effectPending, hasCleanup, startTimer,
                 session, isScanningRef, scanning, error, scanIntervalRef,
                 frameCountRef, interval, stopCalls, clearCalls, inflight, nReq, sampled,
                 callbacks, errNotifs, lastOutcome, cbSeen,
                 transientRun, serverResponse, uploadVars, textVars, audioVars, tabVars>>

\* A startScanner that swallows the rejection and goes on to start the
\* sampler.
GetUserMediaReject_startsSampler(k) ==
  /\ acq[k] = "pending"
  /\ acq' = [acq EXCEPT ![k] = "failed"]
  /\ error' = "Failed to start camera"
  /\ interval' = [interval EXCEPT ![k] = "live"]
  /\ scanIntervalRef' = k
  /\ UNCHANGED <<mounted, isOpen, effectPending, hasCleanup, startTimer,
                 session, isScanningRef, scanning, streamRef, frameCountRef,
                 stream, stopCalls, clearCalls, inflight, nReq, sampled, callbacks,
                 errNotifs, lastOutcome, cbSeen,
                 transientRun, serverResponse, uploadVars, textVars, audioVars, tabVars>>

\* getUserMedia of the startScanner of session k rejects: the catch block.
GetUserMediaReject(k) ==
  /\ acq[k] = "pending"
  /\ acq' = [acq EXCEPT ![k] = "failed"]
  /\ error' = "Failed to start camera"
  /\ scanning' = FALSE
  /\ isScanningRef' = FALSE
  /\ IF streamRef # NoHandle
     THEN /\ stream' = [stream EXCEPT ![streamRef] = "stopped"]
          /\ stopCalls' = [stopCalls EXCEPT ![streamRef] = @ + 1]
          /\ streamRef' = NoHandle
     ELSE UNCHANGED <<stream, stopCalls, streamRef>>
  /\ UNCHANGED <<mounted, isOpen, effectPending, hasCleanup, startTimer,
                 session, scanIntervalRef, frameCountRef, interval,
                 clearCalls, inflight, nReq, sampled, callbacks, errNotifs, lastOutcome, cbSeen,
                 transientRun, serverResponse, uploadVars, textVars, audioVars, tabVars>>

\* The video element is ready (readyState >= 2 or loadedmetadata): the
\* startScanner of session k creates the 200ms sampler.
VideoReady(k) ==
  /\ acq[k] = "awaitReady"
  /\ acq' = [acq EXCEPT ![k] = "done"]
  /\ interval' = [interval EXCEPT ![k] = "live"]
  /\ scanIntervalRef' = k
  /\ UNCHANGED <<mounted, isOpen, effectPending, hasCleanup, startTimer,
                 session, isScanningRef, scanning, error, streamRef,
                 frameCountRef, stream, stopCalls, clearCalls, inflight, nReq, sampled,
                 callbacks, errNotifs, lastOutcome, cbSeen,
                 transientRun, serverResponse, uploadVars, textVars, audioVars, tabVars>>

\* The guard of the sampler callback and of captureAndScanFrame.
captureGuard == isScanningRef /\ VideoRefAttached

\* A tick of the sampler of session k that passes the guards: the frame is
\* drawn and encoded and api.qr.scanFromFrame is called.  (A tick that fails
\* a guard returns without any effect.)
Tick(k) ==
  /\ interval[k] = "live"
  /\ captureGuard
  /\ nReq < MaxReq
  /\ nReq' = nReq + 1
  /\ frameCountRef' = frameCountRef + 1
  /\ inflight' = inflight (+) SetToBag({Request(session)})
  /\ sampled' = sampled \cup {k}
  /\ UNCHANGED <<mounted, isOpen, effectPending, hasCleanup, startTimer,
                 session, isScanningRef, scanning, error, streamRef,
                 scanIntervalRef, acq, stream, interval, stopCalls,
                 clearCalls, callbacks, errNotifs, lastOutcome, cbSeen,
                 transientRun, serverResponse, uploadVars, textVars, audioVars, tabVars>>

\* result.success && result.assetId && result.asset
IsMatch(result) == result.success /\ result.hasAssetId /\ result.hasAsset

\* How captureAndScanFrame treats what scanFromFrame produced.
Classify(out) ==
  IF ~out.throws
  THEN IF IsMatch(out.result) THEN "Matched"
       ELSE IF out.result.error = "Asset not found" THEN "AssetUnresolved"
       ELSE "NotFound"
  ELSE IF Includes404(out.message) THEN "AssetUnresolved"
       ELSE "TransientError"

\* The ways a round trip can end, over every response of the server: the
\* branch captureAndScanFrame takes, and whether it is reached through the
\* catch block.
ResponseBranches ==
  {[kind |-> Classify(scanFromFrame(response)),
    throws |-> scanFromFrame(response).throws] : response \in HttpResponses}

\* A "no QR code" arm that stops the scanner.
KeepScanning_stops ==
  /\ SetCore(stopScanner(Core))
  /\ UNCHANGED <<error, callbacks, errNotifs, cbSeen>>

\* A "continue scanning" arm that shows the failure to the user.
KeepScanning_showsError ==
  /\ error' = "Scan failed"
  /\ UNCHANGED <<isScanningRef, scanning, streamRef, scanIntervalRef, stream,
                 interval, stopCalls, clearCalls, callbacks, errNotifs,
                 cbSeen>>

\* The two arms that return false without touching anything: no QR code
\* detected, and an error other than a 404 (logged only).
KeepScanning ==
  UNCHANGED <<isScanningRef, scanning, streamRef, scanIntervalRef, stream,
              interval, stopCalls, clearCalls, error, callbacks, errNotifs,
              cbSeen>>

\* The round trip r resolves and captureAndScanFrame resumes after its
\* await, in the branch out.kind.
Response(r, out) ==
  /\ BagIn(r, inflight)
  /\ LET kind == out.kind
         k    == r.session
     IN /\ inflight' = inflight (-) SetToBag({r})
        /\ lastOutcome' = [lastOutcome EXCEPT ![k] = kind]
        /\ transientRun' = [transientRun EXCEPT
                              ![k] = IF kind = "TransientError" THEN @ + 1
                                     ELSE 0]
        /\ CASE kind = "Matched" ->
                  /\ SetCore(matchRelease(Core))
                  /\ callbacks' = [callbacks EXCEPT ![k] = @ + 1]
                  /\ cbSeen' = Seen(matchRelease(Core))
                  /\ UNCHANGED <<error, errNotifs>>
             [] kind = "AssetUnresolved" ->
                  /\ error' = IF out.throws
                              THEN "Invalid QR code: Asset not found"
                              ELSE "QR code scanned but asset not found in database"
                  /\ SetCore(stopScanner(Core))
                  /\ errNotifs' = [errNotifs EXCEPT ![k] = @ + 1]
                  /\ UNCHANGED <<callbacks, cbSeen>>
             [] OTHER -> KeepScanning
  /\ UNCHANGED <<mounted, isOpen, effectPending, hasCleanup, startTimer,
                 session, frameCountRef, acq, nReq, sampled,
                 serverResponse, uploadVars, textVars, audioVars, tabVars>>

\* Some unresolved round trip resolves, in any of the ways it can end.
Respond == \E r \in InFlight : \E out \in ResponseBranches : Response(r, out)

Next ==
  \/ Open
  \/ Close
  \/ Unmount
  \/ RunEffect
  \/ StartTimerFire
  \/ \E k \in Sessions : GetUserMediaResolve(k)
  \/ \E k \in Sessions : GetUserMediaReject(k)
  \/ \E k \in Sessions : VideoReady(k)
  \/ \E k \in Sessions : Tick(k)
  \/ Respond

\* Every commit may leave its passive effect to a later task.
Spec == Init /\ [][Next]_vars

NextSync ==
  \/ OpenSync
  \/ CloseSync
  \/ UnmountSync
  \/ StartTimerFire
  \/ \E k \in Sessions : GetUserMediaResolve(k)
  \/ \E k \in Sessions : GetUserMediaReject(k)
  \/ \E k \in Sessions : VideoReady(k)
  \/ \E k \in Sessions : Tick(k)
  \/ Respond

\* Every commit flushes its passive effect at once.
SpecSync == Init /\ [][NextSync]_vars

\* Clicks flush the passive effect inside the commit; the unmount that
\* App.handleLogout makes after its await is not made inside an event
\* handler, so its effect cleanup runs in a later task.
NextLogout ==
  \/ NextSync
  \/ Unmount
  \/ RunEffect

SpecLogout == Init /\ [][NextLogout]_vars

\* A server that never answers: what the program and the browser do on
\* their own.  api.qr.scanFromFrame passes fetch no signal and arms no
\* timer, so nothing but a response settles a round trip.
NextSilent ==
  \/ OpenSync
  \/ CloseSync
  \/ UnmountSync
  \/ StartTimerFire
  \/ \E k \in Sessions : GetUserMediaResolve(k)
  \/ \E k \in Sessions : GetUserMediaReject(k)
  \/ \E k \in Sessions : VideoReady(k)
  \/ \E k \in Sessions : Tick(k)

SpecSilent == Init /\ [][NextSilent]_vars

\* The branch captureAndScanFrame takes for one response.
BranchOf(response) ==
  [kind |-> Classify(scanFromFrame(response)),
   throws |-> scanFromFrame(response).throws]

\* An unresolved round trip resolves with the answer of the server to the
\* image at hand.
FrameRespond == \E r \in InFlight : Response(r, BranchOf(serverResponse))

\* One image and a server that answers it the same way every time: the
\* scanner is opened on it and samples it, and the file input submits it.
InitBackend ==
  /\ ScannerInit
  /\ UploadInit
  /\ TextInit
  /\ AudioInit
  /\ TabInit
  /\ serverResponse \in HttpResponses

NextBackend ==
  \/ OpenSync
  \/ StartTimerFire
  \/ \E k \in Sessions : GetUserMediaResolve(k)
  \/ \E k \in Sessions : VideoReady(k)
  \/ \E k \in Sessions : Tick(k)
  \/ FrameRespond
  \/ UploadOpen
  \/ UploadClose
  \/ \E hasFile \in BOOLEAN : handleFileChange(hasFile)
  \/ UploadResponse
  \/ scanFromTextCall
  \/ scanFromTextSettle

SpecBackend == InitBackend /\ [][NextBackend]_vars

\* MaintenanceInput on its own.
SpecAudio == Init /\ [][NextAudio]_vars

\* MaintenanceTab on its own.
SpecTab == Init /\ [][NextTab]_vars

TypeOK ==
  /\ mounted \in BOOLEAN /\ isOpen \in BOOLEAN /\ effectPending \in BOOLEAN
  /\ hasCleanup \in BOOLEAN /\ startTimer \in BOOLEAN
  /\ session \in 0..MaxOpen
  /\ isScanningRef \in BOOLEAN /\ scanning \in BOOLEAN
  /\ streamRef \in {NoHandle} \cup Sessions
  /\ scanIntervalRef \in {NoHandle} \cup Sessions
  /\ frameCountRef \in 0..MaxReq
  /\ acq \in [Sessions -> {"none", "pending", "awaitReady", "done", "failed"}]
  /\ stream \in [Sessions -> {"none", "live", "stopped"}]
  /\ interval \in [Sessions -> {"none", "live", "cleared"}]
  /\ nReq \in 0..MaxReq


(***************************************************************************)
(* Properties                                                              *)
(***************************************************************************)

LiveStreams   == {i \in Sessions : stream[i] = "live"}
LiveIntervals == {i \in Sessions : interval[i] = "live"}

\* The teardown of the last close or unmount has run completely.
TornDown == ~effectPending /\ (~mounted \/ ~isOpen)

\* C1: single-flight.  In every reachable state at most one recognition
\* round trip is outstanding: a sampler tick never dispatches a request
\* while an earlier one is unresolved.
C1_SingleFlight == BagCardinality(inflight) <= 1

\* C2: for a session whose round trips have all resolved and whose last
\* outcome is Matched, onScanComplete was invoked exactly once and the
\* tracks of the session's camera stream were stopped exactly once.
C2_MatchDeliveredOnce ==
  \A k \in Sessions :
    (lastOutcome[k] = "Matched" /\ \A r \in InFlight : r.session # k)
      => (callbacks[k] = 1 /\ stopCalls[k] = 1)

\* C3: the response to a round trip that a close overtook (stopScanner ran
\* between its dispatch and its response) changes no state of the scanner
\* and invokes no callback, whatever the response is.
C3_StaleResponseDropped ==
  [][\A r \in InFlight :
       (r.stale /\ CopiesIn(r, inflight') < CopiesIn(r, inflight))
         => (Core' = Core /\ error' = error /\ callbacks' = callbacks
             /\ errNotifs' = errNotifs)]_vars


\* C4: stopScanner is idempotent.  From every reachable state, a second
\* call right after a first one changes nothing (same refs, same timers and
\* streams, same numbers of clearInterval calls and track stops); one call
\* leaves isScanningRef false and both refs null; and no interval is
\* cleared and no stream is stopped more than once, although the effect of
\* a close calls stopScanner twice in a row.
C4_StopIdempotent ==
  LET once == stopScanner(Core)
  IN /\ stopScanner(once) = once
     /\ ~once.isScanningRef
     /\ once.scanIntervalRef = NoHandle
     /\ once.streamRef = NoHandle
     /\ \A h \in Sessions : stopCalls[h] <= 1 /\ clearCalls[h] <= 1

\* A close tore down a streaming session: the effect called stopScanner
\* twice, the sampler was cleared once and the stream stopped once.
C4_Witness ==
  /\ mounted /\ TornDown
  /\ \E h \in Sessions :
       /\ stream[h] = "stopped" /\ stopCalls[h] = 1
       /\ interval[h] = "cleared" /\ clearCalls[h] = 1
  /\ \A k \in Sessions : callbacks[k] = 0 /\ errNotifs[k] = 0
                         /\ acq[k] # "failed"

\* C5: once the teardown of a close or unmount has run, no camera stream
\* and no sampler interval is live, also when the acquisition completes
\* after the close.
C5_NothingLiveAfterClose ==
  TornDown => (LiveStreams = {} /\ LiveIntervals = {})

\* C6: at most one acquired and not yet stopped camera stream exists, and
\* every live stream is the one streamRef refers to.
C6_OneReferencedStream ==
  /\ Cardinality(LiveStreams) <= 1
  /\ \A i \in LiveStreams : streamRef = i

C8_AtMostOneTerminalOutcome ==
  [][/\ \A k \in Sessions : callbacks'[k] + errNotifs'[k] <= 1
     /\ (session >= 1 /\ callbacks[session] + errNotifs[session] >= 1)
          => nReq' = nReq]_vars

\* C9: when onScanComplete is invoked, isScanningRef is false, both refs
\* are null and no sampler interval and no camera stream is live; after a
\* match no frame is dispatched in the same session.
C9_ReleasedBeforeCallback ==
  [][/\ cbSeen'.called
          => /\ ~cbSeen'.isScanningRef
             /\ cbSeen'.scanIntervalRef = NoHandle
             /\ cbSeen'.streamRef = NoHandle
             /\ cbSeen'.liveIntervals = {}
             /\ cbSeen'.liveStreams = {}
     /\ (session >= 1 /\ callbacks[session] >= 1) => nReq' = nReq]_vars

AssetErrors == {"QR code scanned but asset not found in database",
                "Invalid QR code: Asset not found"}

\* C10: a round trip that yields AssetUnresolved stops the session: after
\* it isScanningRef is false, no interval and no stream is live, one of
\* the asset-not-found messages is shown, it is the only such error of the
\* session, and no further frame is dispatched in the session.
C10_UnresolvedStopsOnce ==
  [][/\ \A k \in Sessions :
          errNotifs'[k] > errNotifs[k]
            => /\ ~isScanningRef'
               /\ LiveIntervals' = {} /\ LiveStreams' = {}
               /\ error' \in AssetErrors
               /\ errNotifs'[k] = 1
     /\ (session >= 1 /\ errNotifs[session] >= 1) => nReq' = nReq]_vars

\* C11: repeated transient failures escalate.  Once the responses of a
\* session have ended in TransientError as many times in a row as the
\* threshold (taken here as MaxReq, the longest run the model produces),
\* the session is stopped with a service-unavailable error: the scanning
\* flag is down, an error is shown, and the sampler and the stream of the
\* session are released.
C11_EscalatesAfterThreshold ==
  \A k \in Sessions :
    transientRun[k] >= MaxReq
      => /\ interval[k] # "live"
         /\ stream[k] # "live"
         /\ error # NoText
         /\ (session = k => ~isScanningRef)

\* C12: a response with success = true that lacks assetId or lacks asset
\* is never delivered as a match and is treated as AssetUnresolved: once a
\* session has handled such a response, onScanComplete has not been invoked
\* and the session is stopped with an asset-not-found error.
C12_SuccessWithoutAssetStops ==
  LET lacksAsset ==
        /\ serverResponse.kind = "http"
        /\ serverResponse.status = 200
        /\ serverResponse.json
        /\ serverResponse.body.success
        /\ ~(serverResponse.body.hasAssetId /\ serverResponse.body.hasAsset)
  IN \A k \in Sessions :
       (lacksAsset /\ lastOutcome[k] # "none")
         => /\ callbacks[k] = 0
            /\ lastOutcome[k] = "AssetUnresolved"
            /\ ~isScanningRef
            /\ error \in AssetErrors
            /\ interval[k] # "live"

\* C13: classification follows the outcome contract for every behaviour of
\* the server.  Every handled response gets one of the four outcome kinds;
\* a report that the code was recognized but its entity is missing is
\* AssetUnresolved both as a JSON body {success: false, error: 'Asset not
\* found'} of an OK response and as a 404 response with that error body,
\* which handleResponse turns into a thrown Error; and a failure of the
\* network is TransientError.
C13_ClassificationFollowsContract ==
  LET entityMissing ==
        /\ serverResponse.kind = "http"
        /\ serverResponse.status \in {200, 404}
        /\ serverResponse.json
        /\ ~serverResponse.body.success
        /\ serverResponse.body.error = "Asset not found"
  IN \A k \in Sessions :
       lastOutcome[k] # "none"
         => /\ lastOutcome[k] \in {"Matched", "AssetUnresolved", "NotFound",
                                   "TransientError"}
            /\ entityMissing => lastOutcome[k] = "AssetUnresolved"
            /\ serverResponse = NetworkFailure
                 => lastOutcome[k] = "TransientError"

\* C14: a NotFound outcome changes nothing.  The step in which a round trip
\* resolves as NotFound (no code in the frame) leaves isScanningRef, the
\* scanning and error states, the interval and stream refs and every timer
\* and stream as they were and invokes no callback, so sampling goes on.
C14_NotFoundChangesNothing ==
  [][\A r \in InFlight :
       (/\ BagCardinality(inflight') < BagCardinality(inflight)
        /\ CopiesIn(r, inflight') < CopiesIn(r, inflight)
        /\ lastOutcome'[r.session] = "NotFound")
         => UNCHANGED <<isScanningRef, scanning, error, streamRef,
                        scanIntervalRef, stream, interval, stopCalls,
                        clearCalls, callbacks, errNotifs, cbSeen>>]_vars

\* A session that is streaming after one of its round trips ended NotFound.
C14_Witness ==
  \E k \in Sessions :
    /\ lastOutcome[k] = "NotFound"
    /\ session = k /\ isScanningRef /\ error = NoText
    /\ scanIntervalRef = k /\ interval[k] = "live"
    /\ streamRef = k /\ stream[k] = "live"

\* C15: a transient failure is absorbed.  The step in which a round trip
\* ends in a network failure or a server error other than a 404 invokes no
\* callback, sets no error the user can see, and leaves isScanningRef, the
\* interval and the stream unchanged; the next tick proceeds as before.
C15_TransientAbsorbed ==
  [][\A r \in InFlight :
       (/\ BagCardinality(inflight') < BagCardinality(inflight)
        /\ CopiesIn(r, inflight') < CopiesIn(r, inflight)
        /\ lastOutcome'[r.session] = "TransientError")
         => /\ error' = error
            /\ callbacks' = callbacks /\ cbSeen' = cbSeen
            /\ errNotifs' = errNotifs
            /\ isScanningRef' = isScanningRef /\ scanning' = scanning
            /\ scanIntervalRef' = scanIntervalRef /\ interval' = interval
            /\ streamRef' = streamRef /\ stream' = stream]_vars

\* A session that is streaming, with no error shown, right after its first
\* transient failure.
C15_Witness ==
  \E k \in Sessions :
    /\ lastOutcome[k] = "TransientError" /\ transientRun[k] = 1
    /\ session = k /\ isScanningRef /\ error = NoText
    /\ scanIntervalRef = k /\ interval[k] = "live"
    /\ streamRef = k /\ stream[k] = "live"
    /\ callbacks[k] = 0

C18_UniformMatch ==
  ((\E k \in Sessions : lastOutcome[k] # "none") /\ uploadKinds # {})
    => ((\E k \in Sessions : callbacks[k] > 0) <=> uploadCallbacks > 0)

\* C19: teardown is immediate.  When the modal is closed or the component
\* is unmounted while the session is streaming with a round trip in flight,
\* the same step clears the interval and stops the tracks that the refs
\* hold and lowers isScanningRef, while the round trip is still
\* outstanding; there is no state between the close and the release in
\* which a tick could run.
C19_TeardownImmediate ==
  [][(/\ mounted /\ isOpen /\ isScanningRef
      /\ scanIntervalRef # NoHandle /\ streamRef # NoHandle
      /\ interval[scanIntervalRef] = "live" /\ stream[streamRef] = "live"
      /\ inflight # EmptyBag
      /\ (~isOpen' \/ ~mounted'))
       => /\ interval'[scanIntervalRef] = "cleared"
          /\ stream'[streamRef] = "stopped"
          /\ ~isScanningRef'
          /\ BagCardinality(inflight') = BagCardinality(inflight)]_vars

\* C20: the sampler is live only while the session is streaming.  At most
\* one interval timer created by startScanner is live, scanIntervalRef
\* refers to it, and a live timer implies a mounted, open scanner whose
\* scanning flag is up and whose current startScanner has finished its
\* acquisition (not idle, not acquiring, not stopped).
C20_SamplerOnlyWhileStreaming ==
  /\ Cardinality(LiveIntervals) <= 1
  /\ \A i \in LiveIntervals :
       /\ scanIntervalRef = i
       /\ mounted /\ isOpen /\ isScanningRef
       /\ session = i /\ acq[i] = "done"

\* C21: open is accepted only from Idle.  At most one getUserMedia request
\* of startScanner is pending at any time, also when the modal is closed and
\* opened again while an earlier request is still pending.
C21_OnePendingAcquisition ==
  Cardinality({k \in Sessions : acq[k] = "pending"}) <= 1

\* C22: every dispatched round trip terminates.  Also when the server never
\* answers, an outstanding round trip can always be settled by a step of
\* the program itself (its timeout).
C22_RoundTripTimesOut ==
  inflight # EmptyBag
    => ENABLED (/\ NextSilent
                /\ BagCardinality(inflight') < BagCardinality(inflight))

\* C23: a close within the 300ms start-up delay cancels the pending start.
\* startScanner begins an acquisition only for the open that is current
\* while the scanner is mounted and open: once the modal has been closed
\* or unmounted with the timer still pending, no getUserMedia request is
\* made for that open.
C23_CloseCancelsPendingStart ==
  [][\A k \in Sessions :
       (acq[k] = "none" /\ acq'[k] # "none")
         => (mounted /\ isOpen /\ session = k)]_vars

\* C24: a closed modal never blocks the next open.  In every state reached
\* with the modal closed and the effect of the close run, isScanningRef is
\* false; and whenever the 300ms timer of an open fires, startScanner passes
\* its 'already scanning' guard and starts the acquisition of that open.
C24_ClosedNeverBlocksOpen ==
  [][/\ (mounted' /\ ~isOpen' /\ ~effectPending') => ~isScanningRef'
     /\ (/\ startTimer /\ ~startTimer'
         /\ isOpen' = isOpen /\ mounted' = mounted
         /\ effectPending' = effectPending)
          => (acq[session] = "none" /\ acq'[session] = "pending")]_vars

\* The second open is acquiring the camera after the first session ended
\* with a match.
C24_Witness ==
  /\ session = 2 /\ acq[2] = "pending" /\ isScanningRef
  /\ callbacks[1] > 0

\* C25: a match is delivered and ends the session.  When a session is
\* streaming (it is the current open, the scanner is mounted and open, its
\* flag is up, its sampler and its stream are live) and one of its round
\* trips is answered with a match, then with the handling of that answer
\* onScanComplete is invoked and the session is stopped: the flag is down,
\* its sampler is cleared and its stream is released.
C25_MatchStopsSession ==
  [][\A r \in InFlight :
       (/\ BagCardinality(inflight') < BagCardinality(inflight)
        /\ CopiesIn(r, inflight') < CopiesIn(r, inflight)
        /\ lastOutcome'[r.session] = "Matched"
        /\ mounted /\ isOpen /\ isScanningRef /\ session = r.session
        /\ interval[r.session] = "live" /\ stream[r.session] = "live")
         => /\ callbacks'[r.session] = callbacks[r.session] + 1
            /\ ~isScanningRef'
            /\ interval'[r.session] = "cleared"
            /\ stream'[r.session] = "stopped"]_vars

\* C26: in QRFileUpload the uploading flag is true exactly while a
\* scanFromFile round trip is outstanding.  The number of calls without an
\* outcome is 1 when uploading is true and 0 when it is false, so at most
\* one round trip is outstanding; a call raises the flag, every outcome
\* lowers it; and a change event without a file makes no call and leaves
\* the state of the component as it was.
C26_UploadingWhileOutstanding ==
  [][LET outstanding ==
           uploadCalls' - (uploadCallbacks' + uploadErrorSets')
     IN /\ outstanding = (IF uploading' THEN 1 ELSE 0)
        /\ uploadCalls' # uploadCalls => uploading'
        /\ (uploadCallbacks' + uploadErrorSets'
              # uploadCallbacks + uploadErrorSets) => ~uploading'
        /\ (uploadEvents' # uploadEvents /\ uploadSubmits' = uploadSubmits)
             => UNCHANGED <<uploadOpen, uploading, uploadError,
                            uploadPending, uploadCalls, uploadCallbacks,
                            uploadErrorSets, uploadKinds>>]_vars

\* A second upload is outstanding after the first one has completed.
C26_Witness ==
  /\ uploading /\ uploadPending
  /\ uploadCalls = 2
  /\ uploadCallbacks + uploadErrorSets = 1

\* C27: QRFileUpload delivers nothing after the modal has been closed.
\* Every invocation of onScanComplete happens while isOpen is true: a
\* response that arrives after the close does not invoke it.
C27_NoDeliveryAfterClose ==
  [][uploadCallbacks' # uploadCallbacks => uploadOpen]_vars


LiveMicStreams == {k \in Recs : micStream[k] = "live"}

\* C28: MaintenanceInput holds at most one live microphone stream at any
\* time, and the stream of every recording that has ended is released (its
\* tracks are stopped).
C28_OneLiveMicrophone ==
  /\ Cardinality(LiveMicStreams) <= 1
  /\ \A k \in Recs :
       recording[k] \in {"reading", "readFailed", "inflight", "done"}
         => micStream[k] = "stopped"

\* The speech-processing round trips that are under way: from the start of
\* processAudioBlob until the response has been handled.
SpeechOutstanding ==
  {k \in Recs : recording[k] \in {"reading", "readFailed", "inflight"}}

\* C29: while a speech-processing round trip of the mounted component is
\* under way isProcessingSpeech is true, so that the record, enhance and
\* text controls are disabled and no second request can start.
C29_ProcessingFlagCoversRoundTrip ==
  (inputMount = "mounted" /\ SpeechOutstanding # {}) => isProcessingSpeech


\* C30: in MaintenanceTab view = 'form' only with a scannedAsset, and a
\* handleScanComplete whose asset lookup fails (asset missing from the list
\* or getAll throws) leaves view = 'scanner' with scannedAsset null, under
\* any interleaving of scan completions, form cancel and form submit.
C30_FormImpliesAsset ==
  [][/\ view' = "form" => scannedAsset' # NoAsset
     /\ (/\ BagCardinality(lookups') < BagCardinality(lookups)
         /\ lastLookup' \in {"missing", "throws"})
          => (view' = "scanner" /\ scannedAsset' = NoAsset)]_vars

\* A lookup failed after a form had been shown and submitted, while the
\* answer to the submit is still outstanding.
C30_Witness ==
  /\ lastLookup \in {"missing", "throws"}
  /\ creates > 0
  /\ view = "scanner" /\ scannedAsset = NoAsset

=============================================================================
